---- MODULE Spec2Model ----
(***************************************************************************)
(* Model of the fixed-width file handler (src/src/fixed_width_file.py,     *)
(* record_parser.py, fixed_width_file_handler.py, cli.py).                 *)
(*                                                                         *)
(* A Python str is a TLA+ string, that is a sequence of characters: Len,   *)
(* \o and SubSeq apply to it.  A Python int is kept as its decimal numeral *)
(* without leading zeros (what str() prints), so that 12-digit sums do not *)
(* depend on the checker's integer width; the instance's                   *)
(* transaction_counter, which stays small, is a Nat.                       *)
(***************************************************************************)
EXTENDS Integers, Sequences, FiniteSets, TLC

(* ------------------------------------------------------------------ *)
(* Characters and Python string primitives                             *)
(* ------------------------------------------------------------------ *)
DIGITS == "0123456789"

\* s[i - 1]: the i-th character, as a string of length one
Ch(s, i) == SubSeq(s, i, i)

IsDigit(c) == \E i \in 1..10 : Ch(DIGITS, i) = c

DigitVal(c) == (CHOOSE i \in 1..10 : Ch(DIGITS, i) = c) - 1

\* c * n, built by halving
RECURSIVE Rep(_, _)
Rep(c, n) ==
  IF n <= 0 THEN ""
  ELSE LET half == Rep(c, n \div 2)
       IN  IF n % 2 = 0 THEN half \o half ELSE half \o half \o c

MinOf(S) == CHOOSE x \in S : \A y \in S : x <= y

MaxOf(S) == 0 - MinOf({0 - x : x \in S})

\* s[a:b] with 0 <= a <= b (Python slice: clipped to the string)
Slice(s, a, b) == IF a >= Len(s) THEN ""
                  ELSE SubSeq(s, a + 1, IF b < Len(s) THEN b ELSE Len(s))

\* s.strip(): the only whitespace inside a line of the model is the blank
strip(s) ==
  LET keep == {i \in 1..Len(s) : Ch(s, i) # " "}
  IN  IF keep = {} THEN "" ELSE SubSeq(s, MinOf(keep), MaxOf(keep))

\* s.ljust(n): pads on the right, never truncates
ljust(s, n) == IF Len(s) >= n THEN s ELSE s \o Rep(" ", n - Len(s))

\* s.zfill(n): pads with zeros after an optional sign, never truncates
zfill(s, n) ==
  IF Len(s) >= n THEN s
  ELSE IF Len(s) > 0 /\ Ch(s, 1) \in {"+", "-"}
       THEN Ch(s, 1) \o Rep("0", n - Len(s)) \o SubSeq(s, 2, Len(s))
       ELSE Rep("0", n - Len(s)) \o s

startswith(s, p) == Len(s) >= Len(p) /\ SubSeq(s, 1, Len(p)) = p

(* ------------------------------------------------------------------ *)
(* Python int and decimal.Decimal on numerals                          *)
(* ------------------------------------------------------------------ *)
\* int(s) raises ValueError unless s is a numeral (digits only: the model's
\* inputs hold no sign and no underscore)
IntOk(s) == Len(s) > 0 /\ \A i \in 1..Len(s) : IsDigit(Ch(s, i))

\* the numeral of a digit string without its leading zeros
Canon(s) ==
  LET nz == {i \in 1..Len(s) : Ch(s, i) # "0"}
  IN  IF nz = {} THEN "0" ELSE SubSeq(s, MinOf(nz), Len(s))

\* int(s) for IntOk(s)
PyInt(s) == Canon(s)

\* str(n) for a Nat n
RECURSIVE NatStr(_)
NatStr(n) == IF n < 10 THEN Ch(DIGITS, n + 1)
             ELSE NatStr(n \div 10) \o Ch(DIGITS, (n % 10) + 1)

\* a + b on numerals, digit by digit from the right
RECURSIVE AddDigits(_, _, _)
AddDigits(a, b, carry) ==
  IF a = "" /\ b = ""
  THEN IF carry = 0 THEN "" ELSE Ch(DIGITS, carry + 1)
  ELSE LET da == IF a = "" THEN 0 ELSE DigitVal(Ch(a, Len(a)))
           db == IF b = "" THEN 0 ELSE DigitVal(Ch(b, Len(b)))
           ra == IF a = "" THEN "" ELSE SubSeq(a, 1, Len(a) - 1)
           rb == IF b = "" THEN "" ELSE SubSeq(b, 1, Len(b) - 1)
           t  == da + db + carry
       IN  AddDigits(ra, rb, t \div 10) \o Ch(DIGITS, (t % 10) + 1)

IntAdd(a, b) == Canon(AddDigits(a, b, 0))

\* decimal.Decimal(s) raises InvalidOperation unless s is digits with at most
\* one point and at least one digit (the model's inputs hold no sign and no
\* exponent)
DecimalOk(s) ==
  /\ Len(s) > 0
  /\ \A i \in 1..Len(s) : IsDigit(Ch(s, i)) \/ Ch(s, i) = "."
  /\ Cardinality({i \in 1..Len(s) : Ch(s, i) = "."}) <= 1
  /\ \E i \in 1..Len(s) : IsDigit(Ch(s, i))

\* int(decimal.Decimal(s) * 100): two decimals kept, the rest cut off
MinorUnits(s) ==
  LET pts   == {i \in 1..Len(s) : Ch(s, i) = "."}
      p     == IF pts = {} THEN Len(s) + 1 ELSE MinOf(pts)
      whole == SubSeq(s, 1, p - 1)
      frac  == SubSeq(s, p + 1, Len(s))
  IN  Canon(whole \o Slice(frac \o "00", 0, 2))

(* ------------------------------------------------------------------ *)
(* record_parser.py: RecordParser                                      *)
(* ------------------------------------------------------------------ *)
KINDS == {"HEADER", "TRANSACTION", "FOOTER"}

\* field name, start, end, in the order of the dict
FIELD_DEFINITIONS ==
  [ HEADER      |-> << <<"field_id", 0, 2>>, <<"name", 2, 30>>,
                       <<"surname", 30, 60>>, <<"patronymic", 60, 90>>,
                       <<"address", 90, 118>> >>,
    TRANSACTION |-> << <<"field_id", 0, 2>>, <<"counter", 2, 8>>,
                       <<"amount", 8, 20>>, <<"currency", 20, 23>>,
                       <<"reserved", 23, 118>> >>,
    FOOTER      |-> << <<"field_id", 0, 2>>, <<"total_count", 2, 8>>,
                       <<"control_sum", 8, 20>>, <<"reserved", 20, 118>> >> ]

RECORD_LENGTH == 120

ALLOWED_CURRENCIES == {"USD", "EUR", "GBP"}

FieldNames(record_type) ==
  {FIELD_DEFINITIONS[record_type][i][1] : i \in 1..Len(FIELD_DEFINITIONS[record_type])}

FieldDef(record_type, field_name) ==
  CHOOSE d \in {FIELD_DEFINITIONS[record_type][i] :
                  i \in 1..Len(FIELD_DEFINITIONS[record_type])} : d[1] = field_name

\* the record type of a line, "" when the field id is unknown (ValueError)
get_record_type(line) ==
  LET field_id == Slice(line, 0, 2)
  IN  IF field_id = "01" THEN "HEADER"
      ELSE IF field_id = "02" THEN "TRANSACTION"
      ELSE IF field_id = "03" THEN "FOOTER"
      ELSE ""

\* a dict: "type" and every field of the record type, each slice stripped
parse_line(line, record_type) ==
  [k \in {"type"} \cup FieldNames(record_type) |->
     IF k = "type" THEN record_type
     ELSE strip(Slice(line, FieldDef(record_type, k)[2], FieldDef(record_type, k)[3]))]

\* one field of format_line: amount is zero-filled, the others left-justified
FormatField(data, d) ==
  LET value == IF d[1] \in DOMAIN data THEN data[d[1]] ELSE ""
      field_length == d[3] - d[2]
  IN  IF d[1] = "amount" THEN zfill(value, field_length)
      ELSE ljust(value, field_length)

RECURSIVE FormatFrom(_, _, _)
FormatFrom(data, defs, i) ==
  IF i > Len(defs) THEN ""
  ELSE FormatField(data, defs[i]) \o FormatFrom(data, defs, i + 1)

format_line(data, record_type) == FormatFrom(data, FIELD_DEFINITIONS[record_type], 1)

\* data[field_name] = value
DictSet(data, field_name, value) ==
  [k \in DOMAIN data \cup {field_name} |-> IF k = field_name THEN value ELSE data[k]]

(* ------------------------------------------------------------------ *)
(* fixed_width_file_handler.py: FixedWidthFileManager                  *)
(* ------------------------------------------------------------------ *)
\* "\n".join(lines)
RECURSIVE JoinLines(_)
JoinLines(lines) ==
  IF lines = <<>> THEN ""
  ELSE IF Len(lines) = 1 THEN lines[1]
  ELSE lines[1] \o "\n" \o JoinLines(Tail(lines))

\* text.splitlines(): a trailing line break opens no empty last line
RECURSIVE SplitLines(_)
SplitLines(text) ==
  IF text = "" THEN <<>>
  ELSE LET brk == {i \in 1..Len(text) : Ch(text, i) = "\n"}
       IN  IF brk = {} THEN <<text>>
           ELSE <<SubSeq(text, 1, MinOf(brk) - 1)>>
                \o SplitLines(SubSeq(text, MinOf(brk) + 1, Len(text)))

read_lines(content) == SplitLines(content)

write_lines(lines) == JoinLines(lines)

(* ------------------------------------------------------------------ *)
(* fixed_width_file.py: FixedWidthFile                                 *)
(* Each method is an operator from the file content and the instance's *)
(* transaction_counter to the content, the counter and the outcome:    *)
(* ret is what the call returns, or "raise" with the exception in exc; *)
(* wrote tells whether write_lines was called.                         *)
(* ------------------------------------------------------------------ *)
\* an optional argument: None, or a str
None == [some |-> FALSE, str |-> ""]

Some(s) == [some |-> TRUE, str |-> s]

\* the two characters that the code appends to a formatted line: "\\n"
EOL == "\\n"

\* a variant that counts every line, not only those that start with "02"
initialize_transaction_counter_every_line(content) == Len(read_lines(content))

initialize_transaction_counter(content) ==
  LET lines == read_lines(content)
  IN  Cardinality({i \in 1..Len(lines) : startswith(lines[i], "02")})

\* index (from 1) of the last line whose first two characters are "03";
\* 0 stands for the ValueError of a file without footer
find_footer(lines) ==
  LET hits == {i \in 1..Len(lines) : strip(Slice(lines[i], 0, 2)) = "03"}
  IN  IF hits = {} THEN 0 ELSE MaxOf(hits)

\* amount is the literal of a decimal.Decimal; the lines are changed in place
update_footer(lines, transaction_counter, amount) ==
  LET footer_index == find_footer(lines)
      footer_data  == parse_line(lines[footer_index], "FOOTER")
      with_count   == DictSet(footer_data, "total_count",
                              zfill(NatStr(transaction_counter), 6))
      new_sum      == IntAdd(PyInt(footer_data["control_sum"]), MinorUnits(amount))
      new_footer   == DictSet(with_count, "control_sum", zfill(new_sum, 12))
  IN  IF footer_index = 0
        THEN [raised |-> TRUE, exc |-> "ValueError", lines |-> lines]
      ELSE IF ~IntOk(footer_data["control_sum"])
        THEN [raised |-> TRUE, exc |-> "ValueError", lines |-> lines]
      ELSE [raised |-> FALSE, exc |-> "",
            lines |-> [lines EXCEPT ![footer_index] =
                         format_line(new_footer, "FOOTER") \o EOL]]

\* lines.append(x) in the place of lines.insert(index0, x)
InsertAtEnd(lines, index0, x) == lines \o <<x>>

\* lines.insert(index0, x), index0 counted from 0
InsertAt(lines, index0, x) ==
  SubSeq(lines, 1, index0) \o <<x>> \o SubSeq(lines, index0 + 1, Len(lines))

add_transaction(content, transaction_counter, amount, currency) ==
  LET lines == read_lines(content)
      new_transaction_data ==
        [field_id |-> "02",
         counter  |-> zfill(NatStr(transaction_counter + 1), 6),
         amount   |-> zfill(MinorUnits(amount), 12),
         currency |-> currency,
         reserved |-> Rep(" ", 95)]
      footer_index == find_footer(lines)
      new_transaction_line == format_line(new_transaction_data, "TRANSACTION") \o EOL
      inserted == InsertAt(lines, footer_index - 1, new_transaction_line)
      updated  == update_footer(inserted, transaction_counter + 1, amount)
      same     == [content |-> content, transaction_counter |-> transaction_counter,
                   wrote |-> FALSE]
  IN  IF ~DecimalOk(amount)
        THEN same @@ [ret |-> "raise", exc |-> "InvalidOperation"]
      ELSE IF footer_index = 0
        THEN same @@ [ret |-> "None", exc |-> ""]
      ELSE IF updated.raised
        THEN same @@ [ret |-> "raise", exc |-> updated.exc]
      ELSE [content |-> write_lines(updated.lines),
            transaction_counter |-> transaction_counter + 1,
            wrote |-> TRUE, ret |-> "None", exc |-> ""]

matches_transaction_counter(data, transaction_counter) ==
  \/ ~transaction_counter.some
  \/ zfill(IF "counter" \in DOMAIN data THEN data["counter"] ELSE "", 6)
       = zfill(transaction_counter.str, 6)

set_value(content, self_counter, record_type, field_name, value, transaction_counter) ==
  LET lines == read_lines(content)
      hits  == {i \in 1..Len(lines) :
                  matches_transaction_counter(parse_line(lines[i], record_type),
                                              transaction_counter)}
      i     == MinOf(hits)
      new_value == IF field_name = "amount" THEN zfill(value, 12) ELSE value
      data  == DictSet(parse_line(lines[i], record_type), field_name, new_value)
      new_lines == [lines EXCEPT ![i] = format_line(data, record_type) \o EOL]
      written == [content |-> write_lines(new_lines), transaction_counter |-> self_counter,
                  wrote |-> TRUE]
      footer  == update_footer(new_lines, self_counter, new_value)
  IN  IF hits = {}
        THEN [content |-> content, transaction_counter |-> self_counter,
              wrote |-> FALSE, ret |-> "False", exc |-> ""]
      ELSE IF ~DecimalOk(new_value)
        THEN written @@ [ret |-> "raise", exc |-> "InvalidOperation"]
      ELSE IF footer.raised
        THEN written @@ [ret |-> "raise", exc |-> footer.exc]
      ELSE written @@ [ret |-> "True", exc |-> ""]

validate_data(data, record_type) ==
  ~(record_type = "TRANSACTION" /\ data["currency"] \notin ALLOWED_CURRENCIES)

\* whether process_content accepts the line (no ValueError)
LineOk(line) ==
  LET clean_line  == strip(line)
      record_type == get_record_type(clean_line)
  IN  /\ Len(clean_line) = RECORD_LENGTH
      /\ record_type # ""
      /\ validate_data(parse_line(clean_line, record_type), record_type)

\* the records parsed before the first bad line, and the counter, which is
\* incremented line by line
process_content(lines, self_counter) ==
  LET bad  == {i \in 1..Len(lines) : ~LineOk(lines[i])}
      stop == IF bad = {} THEN Len(lines) ELSE MinOf(bad) - 1
      recs == [i \in 1..stop |->
                 parse_line(strip(lines[i]), get_record_type(strip(lines[i])))]
      ntx  == Cardinality({i \in 1..stop : recs[i]["type"] = "TRANSACTION"})
  IN  [ret |-> IF bad = {} THEN "records" ELSE "raise",
       exc |-> IF bad = {} THEN "" ELSE "ValueError",
       records |-> IF bad = {} THEN recs ELSE <<>>,
       transaction_counter |-> self_counter + ntx]

read(content, self_counter) == process_content(read_lines(content), self_counter)

(* ------------------------------------------------------------------ *)
(* cli.py: the wrappers build a fresh instance for every command       *)
(* ------------------------------------------------------------------ *)
cli_add_transaction(content, amount, currency) ==
  LET r == add_transaction(content, initialize_transaction_counter(content),
                           amount, currency)
  IN  r @@ [message |-> IF r.ret = "raise" THEN ""
                        ELSE IF r.ret = "True"
                          THEN "Successfully added a new transaction."
                        ELSE "Failed to add transaction."]

cli_set_value(content, record_type, field_name, value, transaction_counter) ==
  LET r == set_value(content, initialize_transaction_counter(content),
                     record_type, field_name, value, transaction_counter)
  IN  r @@ [message |-> IF r.ret = "raise" THEN ""
                        ELSE IF r.ret = "True"
                          THEN "Successfully set '" \o field_name \o "' to '"
                               \o value \o "'."
                        ELSE "Failed to set value."]

(* ------------------------------------------------------------------ *)
(* Files the program is started on, and the arguments of the calls     *)
(* ------------------------------------------------------------------ *)
\* lines as an author writes them: 120 characters, blank where unused
HeaderLine ==
  "01" \o ljust("John", 28) \o ljust("Doe", 30) \o ljust("P", 30) \o ljust("Addr", 30)

TransactionLine(counter, amount, currency) ==
  "02" \o counter \o amount \o currency \o Rep(" ", 97)

FooterLine(total_count, control_sum) ==
  "03" \o total_count \o control_sum \o Rep(" ", 100)

Num(n, width) == zfill(NatStr(n), width)

\* no transaction, zero footer
FileEmpty == JoinLines(<<HeaderLine, FooterLine(Num(0, 6), Num(0, 12))>>)

\* the scenario of the specification, with the usual final line break
FileOne ==
  JoinLines(<<HeaderLine, TransactionLine(Num(1, 6), Num(12345, 12), "USD"),
              FooterLine(Num(1, 6), Num(12345, 12))>>) \o "\n"

\* one transaction whose counter is not 1
FileGap ==
  JoinLines(<<HeaderLine, TransactionLine(Num(5, 6), Num(12345, 12), "USD"),
              FooterLine(Num(1, 6), Num(12345, 12))>>)

\* one transaction whose amount is padded with blanks instead of zeros
FilePadded ==
  JoinLines(<<HeaderLine,
              TransactionLine(Num(1, 6), "         123", "EUR"),
              FooterLine(Num(1, 6), Num(123, 12))>>)

\* no footer
FileNoFooter == JoinLines(<<HeaderLine>>)

Files == {FileEmpty, FileOne, FileGap, FilePadded, FileNoFooter}

\* 50.00, 9999999999.99 (the largest amount of twelve digits) and a non-number
Amounts == {"50.00", "9999999999.99", "abc"}

Currencies == {"EUR", "XXX"}

SetFields == {"currency", "amount", "nofield"}

SetValues == {"GBP", "50"}

Counters == {None, Some("000001"), Some("000009")}

MaxCalls == 2

MaxAdds == 3

(* ------------------------------------------------------------------ *)
(* State                                                               *)
(* ------------------------------------------------------------------ *)
VARIABLES
  content,              \* the text of the file on disk
  transaction_counter,  \* self.transaction_counter of the current instance
  call,                 \* the last call and its arguments
  outcome,              \* what the last call returned, or "raise"
  exc,                  \* the exception of the last call, "" if none
  message,              \* what the CLI wrapper returned, "" if none
  wrote,                \* whether the last call wrote the file
  before,               \* the file before the last call
  counter_before,       \* self.transaction_counter before the last call
  content0,             \* the file the run started on
  nCalls,               \* number of calls made
  validAdds,            \* number of add_transaction calls with a decimal amount
  added,                \* number of add_transaction calls that wrote the file
  sumAdded              \* sum of the amounts of these calls, in minor units

vars == <<content, transaction_counter, call, outcome, exc, message, wrote, before,
          counter_before, content0, nCalls, validAdds, added, sumAdded>>

NoCall == [op |-> "init", cli |-> FALSE, amount |-> "", currency |-> "",
           record_type |-> "", field_name |-> "", value |-> "", counter |-> None]

\* the state after FixedWidthFile(filename) on one of the files
Init ==
  /\ content \in Files
  /\ transaction_counter = initialize_transaction_counter(content)
  /\ call = NoCall
  /\ outcome = "init"
  /\ exc = ""
  /\ message = ""
  /\ wrote = FALSE
  /\ before = content
  /\ counter_before = transaction_counter
  /\ content0 = content
  /\ nCalls = 0
  /\ validAdds = 0
  /\ added = 0
  /\ sumAdded = "0"

\* bookkeeping shared by the actions: r is the result of the method
Finish(r, c, msg) ==
  /\ content' = r.content
  /\ transaction_counter' = r.transaction_counter
  /\ call' = c
  /\ outcome' = r.ret
  /\ exc' = r.exc
  /\ message' = msg
  /\ wrote' = r.wrote
  /\ before' = content
  /\ counter_before' = transaction_counter
  /\ nCalls' = nCalls + 1
  /\ UNCHANGED content0

AddBook(r, amount) ==
  /\ validAdds' = IF DecimalOk(amount) THEN validAdds + 1 ELSE validAdds
  /\ added' = IF r.wrote THEN added + 1 ELSE added
  /\ sumAdded' = IF r.wrote THEN IntAdd(sumAdded, MinorUnits(amount)) ELSE sumAdded

\* instance.add_transaction(amount, currency) on the current instance
AddTransaction(amount, currency) ==
  LET r == add_transaction(content, transaction_counter, amount, currency)
  IN  /\ Finish(r, [NoCall EXCEPT !.op = "add", !.amount = amount,
                                  !.currency = currency], "")
      /\ AddBook(r, amount)

\* cli.add_transaction(filename, amount, currency): a fresh instance
CliAddTransaction(amount, currency) ==
  LET r == cli_add_transaction(content, amount, currency)
  IN  /\ Finish(r, [NoCall EXCEPT !.op = "add", !.cli = TRUE, !.amount = amount,
                                  !.currency = currency], r.message)
      /\ AddBook(r, amount)

\* instance.set_value(record_type, field_name, value, counter)
SetValue(record_type, field_name, value, counter) ==
  LET r == set_value(content, transaction_counter, record_type, field_name,
                     value, counter)
  IN  /\ Finish(r, [NoCall EXCEPT !.op = "set", !.record_type = record_type,
                                  !.field_name = field_name, !.value = value,
                                  !.counter = counter], "")
      /\ UNCHANGED <<validAdds, added, sumAdded>>

\* cli.set_value(filename, record_type, field_name, value, counter)
CliSetValue(record_type, field_name, value, counter) ==
  LET r == cli_set_value(content, record_type, field_name, value, counter)
  IN  /\ Finish(r, [NoCall EXCEPT !.op = "set", !.cli = TRUE,
                                  !.record_type = record_type,
                                  !.field_name = field_name, !.value = value,
                                  !.counter = counter], r.message)
      /\ UNCHANGED <<validAdds, added, sumAdded>>

\* instance.read()
Read ==
  LET r == read(content, transaction_counter)
  IN  /\ Finish([content |-> content,
                 transaction_counter |-> r.transaction_counter,
                 wrote |-> FALSE, ret |-> r.ret, exc |-> r.exc],
                [NoCall EXCEPT !.op = "read"], "")
      /\ UNCHANGED <<validAdds, added, sumAdded>>

Next ==
  \/ \E a \in Amounts, c \in Currencies :
       nCalls < MaxCalls /\ AddTransaction(a, c)
  \/ \E a \in Amounts, c \in Currencies :
       nCalls < MaxCalls /\ CliAddTransaction(a, c)
  \/ \E k \in KINDS, f \in SetFields, v \in SetValues, n \in Counters :
       nCalls < MaxCalls /\ SetValue(k, f, v, n)
  \/ \E k \in KINDS, f \in SetFields, v \in SetValues, n \in Counters :
       nCalls < MaxCalls /\ CliSetValue(k, f, v, n)
  \/ nCalls < MaxCalls /\ Read

Spec == Init /\ [][Next]_vars

\* only add_transaction is called, on the current instance or through the CLI
NextAdd ==
  \/ \E a \in Amounts, c \in Currencies :
       nCalls < MaxAdds /\ AddTransaction(a, c)
  \/ \E a \in Amounts, c \in Currencies :
       nCalls < MaxAdds /\ CliAddTransaction(a, c)

SpecAdd == Init /\ [][NextAdd]_vars

(* ------------------------------------------------------------------ *)
(* Observations of a file, used to state the properties                *)
(* ------------------------------------------------------------------ *)
LinesOf(text) == read_lines(text)

IsTransactionLine(line) == startswith(line, "02")

TransactionIndexes(text) ==
  LET lines == LinesOf(text)
  IN  {i \in 1..Len(lines) : IsTransactionLine(lines[i])}

HasFooter(text) == find_footer(LinesOf(text)) # 0

FooterOf(text) ==
  LET lines == LinesOf(text)
  IN  parse_line(lines[find_footer(lines)], "FOOTER")

TransactionAt(text, i) == parse_line(LinesOf(text)[i], "TRANSACTION")

\* the value of a numeral of at most nine digits
RECURSIVE NatOf(_)
NatOf(s) == IF s = "" THEN 0
            ELSE 10 * NatOf(SubSeq(s, 1, Len(s) - 1)) + DigitVal(Ch(s, Len(s)))

\* the sum of the amounts of the TRANSACTION lines whose index is in idx
RECURSIVE AmountSum(_, _)
AmountSum(text, idx) ==
  IF idx = {} THEN "0"
  ELSE IntAdd(PyInt(TransactionAt(text, MinOf(idx))["amount"]),
              AmountSum(text, idx \ {MinOf(idx)}))

\* the footer agrees with the TRANSACTION lines
FooterAgrees(text) ==
  /\ HasFooter(text)
  /\ \A i \in TransactionIndexes(text) : IntOk(TransactionAt(text, i)["amount"])
  /\ IntOk(FooterOf(text)["total_count"])
  /\ PyInt(FooterOf(text)["total_count"])
       = NatStr(Cardinality(TransactionIndexes(text)))
  /\ IntOk(FooterOf(text)["control_sum"])
  /\ PyInt(FooterOf(text)["control_sum"])
       = AmountSum(text, TransactionIndexes(text))

(* ------------------------------------------------------------------ *)
(* Properties                                                          *)
(* ------------------------------------------------------------------ *)

\* C1: starting from a file whose footer agrees with its TRANSACTION lines,
\* after any sequence of add_transaction calls the footer's total_count is the
\* number of TRANSACTION lines and its control_sum is the sum, in minor units,
\* of the amounts of the file's transactions: those it started with and those
\* of the calls that added one.
C1_FooterConsistentAfterAdds ==
  FooterAgrees(content0) =>
    /\ IntOk(FooterOf(content)["total_count"])
    /\ PyInt(FooterOf(content)["total_count"])
         = NatStr(Cardinality(TransactionIndexes(content)))
    /\ IntOk(FooterOf(content)["control_sum"])
    /\ PyInt(FooterOf(content)["control_sum"])
         = IntAdd(AmountSum(content0, TransactionIndexes(content0)), sumAdded)

\* C2: add_transaction with a currency outside the allowed set fails and
\* leaves the file as it was (stated for a decimal amount and a file with a
\* footer, where nothing but the currency can make the call fail).
C2_InvalidCurrencyRejected ==
  (call.op = "add" /\ call.currency \notin ALLOWED_CURRENCIES
     /\ DecimalOk(call.amount) /\ HasFooter(before)) =>
    (outcome = "raise" /\ ~wrote /\ content = before)

\* C3: for every line of the file, of kind k, the record r that parse_line
\* returns for it satisfies parse_line(format_line(r, k), k) = r.
C3_RoundTrip ==
  \A i \in 1..Len(LinesOf(content)) :
    LET line == LinesOf(content)[i]
        k    == get_record_type(line)
    IN  k # "" => parse_line(format_line(parse_line(line, k), k), k) = parse_line(line, k)

\* the TRANSACTION lines of the file whose counter is c
WithCounter(text, c) ==
  {i \in TransactionIndexes(text) : TransactionAt(text, i)["counter"] = c}

\* the last call was set_value('TRANSACTION', field, v, c), c the counter of
\* an existing transaction
SetByCounter(field) ==
  /\ call.op = "set"
  /\ call.record_type = "TRANSACTION"
  /\ call.field_name = field
  /\ call.counter.some
  /\ WithCounter(before, call.counter.str) # {}

\* C4: set_value('TRANSACTION', 'currency', v, c) on an existing transaction,
\* v a currency code of the allowed set, changes only columns 20-22 of that
\* transaction's line: the other characters of the line and the other lines
\* are as before.
C4_SetCurrencyChangesOnlyCurrency ==
  (SetByCounter("currency") /\ call.value \in ALLOWED_CURRENCIES) =>
    LET old == LinesOf(before)
        new == LinesOf(content)
        t   == MinOf(WithCounter(before, call.counter.str))
    IN  /\ Len(new) = Len(old)
        /\ \A j \in 1..Len(old) : j # t => new[j] = old[j]
        /\ Len(new[t]) = Len(old[t])
        /\ \A p \in 1..Len(old[t]) : p \notin 21..23 => Ch(new[t], p) = Ch(old[t], p)

\* C5: after set_value('TRANSACTION', 'amount', v, c) updates an existing
\* transaction, the footer in the file has control_sum = old control_sum - old
\* amount + new amount and the total_count it had.  The new amount is read as
\* the amount the line now holds or as v in minor units, whichever fits.
C5_SetAmountAdjustsControlSum ==
  (SetByCounter("amount") /\ wrote /\ DecimalOk(call.value)
     /\ FooterAgrees(before)) =>
    LET t      == MinOf(WithCounter(before, call.counter.str))
        oldAmt == PyInt(TransactionAt(before, t)["amount"])
        oldSum == PyInt(FooterOf(before)["control_sum"])
        newSum == FooterOf(content)["control_sum"]
    IN  /\ FooterOf(content)["total_count"] = FooterOf(before)["total_count"]
        /\ IntOk(newSum)
        /\ \/ /\ IntOk(TransactionAt(content, t)["amount"])
              /\ IntAdd(PyInt(newSum), oldAmt)
                   = IntAdd(oldSum, PyInt(TransactionAt(content, t)["amount"]))
           \/ IntAdd(PyInt(newSum), oldAmt) = IntAdd(oldSum, MinorUnits(call.value))

\* the highest counter among the TRANSACTION lines, 0 when there is none
HighestCounter(text) ==
  IF TransactionIndexes(text) = {} THEN 0
  ELSE MaxOf({NatOf(TransactionAt(text, i)["counter"]) : i \in TransactionIndexes(text)})

\* the line that the last add_transaction inserted: it stands where the
\* footer stood
InsertedLine == LinesOf(content)[find_footer(LinesOf(before))]

\* C6: the counter of the transaction that add_transaction creates is the
\* highest counter among the TRANSACTION lines of the file plus one.
C6_NewCounterIsHighestPlusOne ==
  (call.op = "add" /\ wrote) =>
    /\ IntOk(parse_line(InsertedLine, "TRANSACTION")["counter"])
    /\ NatOf(parse_line(InsertedLine, "TRANSACTION")["counter"])
         = HighestCounter(before) + 1

\* the counter fields (columns 2-7) of the TRANSACTION lines, in file order
RECURSIVE CountersFrom(_, _)
CountersFrom(lines, i) ==
  IF i > Len(lines) THEN <<>>
  ELSE (IF IsTransactionLine(lines[i]) THEN <<Slice(lines[i], 2, 8)>> ELSE <<>>)
       \o CountersFrom(lines, i + 1)

\* C7: on a file that starts without TRANSACTION line, every add_transaction
\* call with a decimal amount adds a line when the file has a footer that
\* agrees with it, and after n such calls the TRANSACTION lines carry, in file
\* order, the counters 1..n written as six digits.
C7_CountersRunFromOne ==
  TransactionIndexes(content0) = {} =>
    /\ FooterAgrees(content0) => added = validAdds
    /\ CountersFrom(LinesOf(content), 1) = [i \in 1..added |-> zfill(NatStr(i), 6)]

\* C7 witness: three transactions were added to a file that had none
C7_Witness ==
  /\ TransactionIndexes(content0) = {}
  /\ added >= 3
  /\ call.op = "add"

\* C8: format_line returns a line of the record width for the record of every
\* line of the file.
C8_FormatLineWidth ==
  \A i \in 1..Len(LinesOf(content)) :
    LET line == LinesOf(content)[i]
        k    == get_record_type(line)
    IN  k # "" => Len(format_line(parse_line(line, k), k)) = RECORD_LENGTH

\* what the caller is told: the value returned, or the message of the wrapper
ReportsSuccess ==
  IF call.cli
  THEN startswith(message, "Successfully")
  ELSE outcome = "True"

\* C9: add and set report success exactly when the change was written, and
\* otherwise report failure without raising (stated for calls through the CLI
\* wrappers with a decimal amount or value on a file with a footer, which give
\* the code no reason to raise).
C9_OutcomeReported ==
  (call.op \in {"add", "set"} /\ call.cli /\ HasFooter(before)
     /\ DecimalOk(IF call.op = "add" THEN call.amount ELSE call.value)) =>
    /\ outcome # "raise"
    /\ ReportsSuccess <=> wrote

\* the first line of the given kind, as a set (empty when there is none)
FirstOfKind(text, kind) ==
  LET lines == LinesOf(text)
      of    == {i \in 1..Len(lines) : get_record_type(lines[i]) = kind}
  IN  IF of = {} THEN {} ELSE {MinOf(of)}

\* C10: on a file with a footer, set_value with a decimal value and without
\* counter modifies the first line of the given kind and no other line; with
\* kind TRANSACTION and a counter c it modifies the TRANSACTION line whose
\* counter is c and no other line (stated for files that hold such a line).
C10_SetTargetsRecordOfKind ==
  LET old     == LinesOf(before)
      new     == LinesOf(content)
      changed == {j \in 1..Len(old) : new[j] # old[j]}
      target  == IF call.counter.some
                 THEN WithCounter(before, call.counter.str)
                 ELSE FirstOfKind(before, call.record_type)
  IN  (call.op = "set" /\ wrote /\ HasFooter(before) /\ DecimalOk(call.value)
         /\ (~call.counter.some \/ call.record_type = "TRANSACTION")
         /\ target # {}) =>
        /\ Len(new) = Len(old)
        /\ changed \subseteq target

\* C11: set_value for kind TRANSACTION with a counter that no TRANSACTION line
\* of the file carries returns False, raises nothing and leaves the file as it
\* was.
C11_MissingCounterIsNoOp ==
  (call.op = "set" /\ call.record_type = "TRANSACTION" /\ call.counter.some
     /\ WithCounter(before, call.counter.str) = {}) =>
    (outcome = "False" /\ ~wrote /\ content = before)

\* C12: set_value with a field name that the given kind does not have returns
\* False, raises nothing and writes nothing: the file is the same as before
\* the call (stated for a decimal value on a file with a footer, where nothing
\* but the field name can make the call fail).
C12_BadFieldOrValueIsNoOp ==
  (call.op = "set" /\ call.field_name \notin FieldNames(call.record_type)
     /\ DecimalOk(call.value) /\ HasFooter(before)) =>
    (outcome = "False" /\ ~wrote /\ content = before)

(* ------------------------------------------------------------------ *)
(* Reading: files that read() is started on                            *)
(* ------------------------------------------------------------------ *)
\* a line as the program writes it: the 118 characters of format_line and the
\* two-character text that add_transaction and set_value append
Written(line) == Slice(line, 0, 118) \o EOL

\* header, one transaction and footer, all written by the program
FileWritten ==
  JoinLines(<<Written(HeaderLine),
              Written(TransactionLine(Num(1, 6), Num(12345, 12), "USD")),
              Written(FooterLine(Num(1, 6), Num(12345, 12)))>>)

\* the same, the transaction line indented by one blank: 121 characters
FileIndented ==
  JoinLines(<<Written(HeaderLine),
              " " \o Written(TransactionLine(Num(1, 6), Num(12345, 12), "USD")),
              Written(FooterLine(Num(1, 6), Num(12345, 12)))>>)

\* the same, the transaction line one character short: 119 characters
FileShort ==
  JoinLines(<<Written(HeaderLine),
              Tail(Written(TransactionLine(Num(1, 6), Num(12345, 12), "USD"))),
              Written(FooterLine(Num(1, 6), Num(12345, 12)))>>)

\* the same, the amount of the transaction not a numeral
FileBadAmount ==
  JoinLines(<<Written(HeaderLine),
              Written(TransactionLine(Num(1, 6), "00000012abcd", "USD")),
              Written(FooterLine(Num(1, 6), Num(12345, 12)))>>)

ReadFiles == {FileWritten, FileIndented, FileShort, FileBadAmount, FileOne}

\* the state after FixedWidthFile(filename) on one of these files
InitRead ==
  /\ content \in ReadFiles
  /\ transaction_counter = initialize_transaction_counter(content)
  /\ call = NoCall
  /\ outcome = "init"
  /\ exc = ""
  /\ message = ""
  /\ wrote = FALSE
  /\ before = content
  /\ counter_before = transaction_counter
  /\ content0 = content
  /\ nCalls = 0
  /\ validAdds = 0
  /\ added = 0
  /\ sumAdded = "0"

SpecRead == InitRead /\ [][Next]_vars

\* the lines of the file whose length, blanks included, is not RECORD_LENGTH
BadLengthLines(text) ==
  LET lines == LinesOf(text)
  IN  {i \in 1..Len(lines) : Len(lines[i]) # RECORD_LENGTH}

\* C13: read() raises on a file that holds a line whose length, leading and
\* trailing blanks included, is not 120.
C13_WrongLengthRejected ==
  (call.op = "read" /\ BadLengthLines(content) # {}) => outcome = "raise"

\* the TRANSACTION lines, as read() sees them, whose amount is not a numeral
BadAmountLines(text) ==
  LET lines == LinesOf(text)
  IN  {i \in 1..Len(lines) :
         /\ IsTransactionLine(strip(lines[i]))
         /\ ~IntOk(parse_line(strip(lines[i]), "TRANSACTION")["amount"])}

\* C14: read() raises on a file that holds a TRANSACTION line whose amount
\* field is not the numeral of a non-negative integer.
C14_BadAmountRejected ==
  (call.op = "read" /\ BadAmountLines(content) # {}) => outcome = "raise"

\* C15: after an add_transaction that wrote a file whose last line was the
\* FOOTER, the new TRANSACTION line, holding the amount and currency of the
\* call, is the line just before the FOOTER, the FOOTER is still the last
\* line, and the lines that preceded the FOOTER are as they were, in order.
C15_InsertedBeforeFooter ==
  LET old == LinesOf(before)
      new == LinesOf(content)
      n   == Len(old)
  IN  (call.op = "add" /\ wrote /\ n > 0 /\ get_record_type(old[n]) = "FOOTER") =>
        /\ Len(new) = n + 1
        /\ IsTransactionLine(new[n])
        /\ parse_line(new[n], "TRANSACTION")["amount"] = zfill(MinorUnits(call.amount), 12)
        /\ parse_line(new[n], "TRANSACTION")["currency"] = call.currency
        /\ get_record_type(new[n + 1]) = "FOOTER"
        /\ \A j \in 1..(n - 1) : new[j] = old[j]

\* a second transaction was added to a file that already held one
C15_Witness ==
  /\ call.op = "add" /\ wrote /\ added >= 2
  /\ TransactionIndexes(content0) # {}
  /\ get_record_type(LinesOf(before)[Len(LinesOf(before))]) = "FOOTER"

\* C16: after any sequence of read, add_transaction and set_value calls the
\* instance's transaction_counter is the number of lines of the file that
\* start with "02".
C16_CounterTracksFile ==
  transaction_counter = Cardinality(TransactionIndexes(content))

\* read() accepts the file: process_content raises on none of its lines
Accepts(text) == \A i \in 1..Len(LinesOf(text)) : LineOk(LinesOf(text)[i])

\* C17: if read() accepts the file, then after one add_transaction or
\* set_value call, whatever its arguments and outcome, read() still accepts it.
C17_MutationKeepsReadable ==
  (call.op \in {"add", "set"} /\ Accepts(before)) => Accepts(content)

====
